---- MODULE Spec2Model ----
(***************************************************************************)
(* A model of ell's lstr (src/src/ell/lstr.py): a str subclass that        *)
(* carries optional logits and a frozenset of origin markers, and the      *)
(* rules by which every string operation propagates the two fields.        *)
(*                                                                         *)
(* A text is a sequence of one-character strings.  A Python value is a     *)
(* record of one shape (Val), its field t naming the Python type.          *)
(***************************************************************************)
EXTENDS Integers, Sequences, FiniteSets, TLC

VARIABLES pc, last, heap

vars == <<pc, last, heap>>

(***************************************************************************)
(* Bounds of the model.                                                    *)
(***************************************************************************)
\* largest repeat count, index, slice bound, split bound and padding width
MaxCount == 2
\* most elements of a tuple or iterable passed as an argument
MaxItems == 2

(***************************************************************************)
(* Python values.                                                          *)
(***************************************************************************)
Val(t, content, logits, origin_trace, n, items, elems) ==
  [t |-> t, content |-> content, logits |-> logits,
   origin_trace |-> origin_trace, n |-> n, items |-> items, elems |-> elems]

NoLogits == "None"

PyNone == Val("NoneType", <<>>, NoLogits, {}, 0, <<>>, {})

PyStr(s) == Val("str", s, NoLogits, {}, 0, <<>>, {})

PyBytes(s) == Val("bytes", s, NoLogits, {}, 0, <<>>, {})

PyInt(n) == Val("int", <<>>, NoLogits, {}, n, <<>>, {})

PyBool(b) == Val("bool", <<>>, NoLogits, {}, IF b THEN 1 ELSE 0, <<>>, {})

PyFloat(n) == Val("float", <<>>, NoLogits, {}, n, <<>>, {})

PyTuple(items) == Val("tuple", <<>>, NoLogits, {}, 0, items, {})

PyList(items) == Val("list", <<>>, NoLogits, {}, 0, items, {})

\* a single-pass iterator (a generator, iter(...)) that still has `items` to yield
PyIter(items) == Val("iterator", <<>>, NoLogits, {}, 0, items, {})

PySet(elems) == Val("frozenset", <<>>, NoLogits, {}, 0, <<>>, elems)

PySlice(start, stop, step) == Val("slice", <<>>, NoLogits, {}, 0, <<start, stop, step>>, {})

NotImplemented == Val("NotImplementedType", <<>>, NoLogits, {}, 0, <<>>, {})

\* the call did not return: it raised the named exception
Raise(exc) == Val("raise", <<exc>>, NoLogits, {}, 0, <<>>, {})

IsRaise(v) == v.t = "raise"

\* isinstance(v, lstr)
IsLstr(v) == v.t = "lstr"

\* isinstance(v, str): lstr is a subclass of str
IsStr(v) == v.t \in {"str", "lstr"}

\* isinstance(v, SupportsIndex): has __index__
IsIndex(v) == v.t \in {"int", "bool"}

(***************************************************************************)
(* The built-in str operations lstr delegates to with super().             *)
(***************************************************************************)
Whitespace == {" ", "\n"}

LineBreaks == {"\n"}

Reverse(s) == [i \in 1..Len(s) |-> s[Len(s) + 1 - i]]

Digit(d) == CASE d = 0 -> "0" [] d = 1 -> "1" [] d = 2 -> "2" [] d = 3 -> "3"
              [] d = 4 -> "4" [] d = 5 -> "5" [] d = 6 -> "6" [] d = 7 -> "7"
              [] d = 8 -> "8" [] OTHER -> "9"

RECURSIVE Digits(_)
Digits(n) == IF n < 10 THEN <<Digit(n)>> ELSE Digits(n \div 10) \o <<Digit(n % 10)>>

\* str(n) of an int
IntText(n) == IF n < 0 THEN <<"-">> \o Digits(-n) ELSE Digits(n)

\* str(v) as a text; str of an lstr is its content (str.__str__ is inherited)
StrOf(v) ==
  CASE IsStr(v) -> v.content
    [] v.t = "int" -> IntText(v.n)
    [] v.t = "bool" -> IF v.n = 1 THEN <<"T", "r", "u", "e">> ELSE <<"F", "a", "l", "s", "e">>
    [] OTHER -> <<"N", "o", "n", "e">>

\* str.__add__
StrAdd(a, b) == a \o b

\* str.__mul__: a count below 1 gives the empty string
RECURSIVE StrMul(_, _)
StrMul(s, n) == IF n <= 0 THEN <<>> ELSE s \o StrMul(s, n - 1)

\* slice.indices(len): the start and stop a slice denotes on a string of that length
SliceStart(key, len) ==
  LET step == IF key.items[3].t = "NoneType" THEN 1 ELSE key.items[3].n
      lower == IF step < 0 THEN -1 ELSE 0
      upper == IF step < 0 THEN len - 1 ELSE len
      st == key.items[1]
      v == IF st.n < 0 THEN st.n + len ELSE st.n
  IN IF st.t = "NoneType" THEN (IF step < 0 THEN upper ELSE lower)
     ELSE IF v < lower THEN lower ELSE IF v > upper THEN upper ELSE v

SliceStop(key, len) ==
  LET step == IF key.items[3].t = "NoneType" THEN 1 ELSE key.items[3].n
      lower == IF step < 0 THEN -1 ELSE 0
      upper == IF step < 0 THEN len - 1 ELSE len
      sp == key.items[2]
      v == IF sp.n < 0 THEN sp.n + len ELSE sp.n
  IN IF sp.t = "NoneType" THEN (IF step < 0 THEN lower ELSE upper)
     ELSE IF v < lower THEN lower ELSE IF v > upper THEN upper ELSE v

\* the characters at 0-based positions i, i+step, ... short of stop
RECURSIVE Stride(_, _, _, _)
Stride(s, i, stop, step) ==
  IF (step > 0 /\ i >= stop) \/ (step < 0 /\ i <= stop) THEN <<>>
  ELSE <<s[i + 1]>> \o Stride(s, i + step, stop, step)

\* str.__getitem__
StrGetItem(s, key) ==
  IF IsIndex(key) THEN
    LET j == IF key.n < 0 THEN key.n + Len(s) ELSE key.n
    IN IF j < 0 \/ j >= Len(s) THEN Raise("IndexError") ELSE PyStr(<<s[j + 1]>>)
  ELSE IF key.t = "slice" THEN
    LET step == IF key.items[3].t = "NoneType" THEN 1 ELSE key.items[3].n
    IN IF step = 0 THEN Raise("ValueError")
       ELSE PyStr(Stride(s, SliceStart(key, Len(s)), SliceStop(key, Len(s)), step))
  ELSE Raise("TypeError")

\* str.join of texts
RECURSIVE StrJoin(_, _)
StrJoin(sep, parts) ==
  IF parts = <<>> THEN <<>>
  ELSE IF Len(parts) = 1 THEN parts[1]
  ELSE parts[1] \o sep \o StrJoin(sep, Tail(parts))

\* whether sub occurs in s at 1-based position i
OccursAt(s, sub, i) ==
  /\ i >= 1
  /\ i + Len(sub) - 1 <= Len(s)
  /\ \A k \in 1..Len(sub) : s[i + k - 1] = sub[k]

\* the first position from `from` on at which sub occurs in s, or 0
RECURSIVE FindFrom(_, _, _)
FindFrom(s, sub, from) ==
  IF from + Len(sub) - 1 > Len(s) THEN 0
  ELSE IF OccursAt(s, sub, from) THEN from
  ELSE FindFrom(s, sub, from + 1)

\* the last position at which sub occurs in s, searching down from `from`, or 0
RECURSIVE RFindFrom(_, _, _)
RFindFrom(s, sub, from) ==
  IF from < 1 THEN 0
  ELSE IF OccursAt(s, sub, from) THEN from
  ELSE RFindFrom(s, sub, from - 1)

\* s.split(sep, maxsplit) for a non-empty separator text; a negative bound is no bound
RECURSIVE SplitOn(_, _, _)
SplitOn(s, sep, maxsplit) ==
  LET i == FindFrom(s, sep, 1)
  IN IF maxsplit = 0 \/ i = 0 THEN <<s>>
     ELSE <<SubSeq(s, 1, i - 1)>>
            \o SplitOn(SubSeq(s, i + Len(sep), Len(s)), sep, maxsplit - 1)

RECURSIVE DropSpace(_)
DropSpace(s) ==
  IF s # <<>> /\ Head(s) \in Whitespace THEN DropSpace(Tail(s)) ELSE s

\* the length of the leading run of non-whitespace characters
RECURSIVE WordLen(_)
WordLen(s) ==
  IF s = <<>> \/ Head(s) \in Whitespace THEN 0 ELSE 1 + WordLen(Tail(s))

\* s.split(None, maxsplit): runs of whitespace separate, none at the ends
RECURSIVE SplitSpace(_, _)
SplitSpace(s, maxsplit) ==
  LET t == DropSpace(s)
      w == WordLen(t)
  IN IF t = <<>> THEN <<>>
     ELSE IF maxsplit = 0 THEN <<t>>
     ELSE <<SubSeq(t, 1, w)>> \o SplitSpace(SubSeq(t, w + 1, Len(t)), maxsplit - 1)

\* the texts of a list, each reversed, in reverse order
ReverseAll(parts) == [i \in 1..Len(parts) |-> Reverse(parts[Len(parts) + 1 - i])]

\* str.split(sep, maxsplit): a list of plain strings, or the error raised
StrSplit(s, sep, maxsplit) ==
  IF ~IsIndex(maxsplit) THEN Raise("TypeError")
  ELSE IF sep.t = "NoneType" THEN
    PyList([i \in 1..Len(SplitSpace(s, maxsplit.n)) |-> PyStr(SplitSpace(s, maxsplit.n)[i])])
  ELSE IF ~IsStr(sep) THEN Raise("TypeError")
  ELSE IF sep.content = <<>> THEN Raise("ValueError")
  ELSE PyList([i \in 1..Len(SplitOn(s, sep.content, maxsplit.n)) |->
                 PyStr(SplitOn(s, sep.content, maxsplit.n)[i])])

\* str.rsplit(sep, maxsplit): split scanning from the right
StrRSplit(s, sep, maxsplit) ==
  IF ~IsIndex(maxsplit) THEN Raise("TypeError")
  ELSE IF sep.t = "NoneType" THEN
    LET parts == ReverseAll(SplitSpace(Reverse(s), maxsplit.n))
    IN PyList([i \in 1..Len(parts) |-> PyStr(parts[i])])
  ELSE IF ~IsStr(sep) THEN Raise("TypeError")
  ELSE IF sep.content = <<>> THEN Raise("ValueError")
  ELSE LET parts == ReverseAll(SplitOn(Reverse(s), Reverse(sep.content), maxsplit.n))
       IN PyList([i \in 1..Len(parts) |-> PyStr(parts[i])])

\* the length of the first line of s, its line break excluded (Len(s) when none)
RECURSIVE LineLen(_)
LineLen(s) ==
  IF s = <<>> \/ Head(s) \in LineBreaks THEN 0 ELSE 1 + LineLen(Tail(s))

RECURSIVE Lines(_, _)
Lines(s, keepends) ==
  LET n == LineLen(s)
  IN IF s = <<>> THEN <<>>
     ELSE IF n = Len(s) THEN <<s>>
     ELSE <<SubSeq(s, 1, IF keepends THEN n + 1 ELSE n)>>
            \o Lines(SubSeq(s, n + 2, Len(s)), keepends)

\* str.splitlines(keepends)
StrSplitlines(s, keepends) ==
  PyList([i \in 1..Len(Lines(s, keepends.n # 0)) |-> PyStr(Lines(s, keepends.n # 0)[i])])

\* str.partition(sep)
StrPartition(s, sep) ==
  IF ~IsStr(sep) THEN Raise("TypeError")
  ELSE IF sep.content = <<>> THEN Raise("ValueError")
  ELSE LET i == FindFrom(s, sep.content, 1)
       IN IF i = 0 THEN PyTuple(<<PyStr(s), PyStr(<<>>), PyStr(<<>>)>>)
          ELSE PyTuple(<<PyStr(SubSeq(s, 1, i - 1)), PyStr(sep.content),
                         PyStr(SubSeq(s, i + Len(sep.content), Len(s)))>>)

\* str.rpartition(sep)
StrRPartition(s, sep) ==
  IF ~IsStr(sep) THEN Raise("TypeError")
  ELSE IF sep.content = <<>> THEN Raise("ValueError")
  ELSE LET i == RFindFrom(s, sep.content, Len(s) - Len(sep.content) + 1)
       IN IF i = 0 THEN PyTuple(<<PyStr(<<>>), PyStr(<<>>), PyStr(s)>>)
          ELSE PyTuple(<<PyStr(SubSeq(s, 1, i - 1)), PyStr(sep.content),
                         PyStr(SubSeq(s, i + Len(sep.content), Len(s)))>>)

\* the operands of a % operation: the elements of a tuple, else the one value
ModArgs(other) == IF other.t = "tuple" THEN other.items ELSE <<other>>

\* a formatted prefix put before the formatting of the rest, unless that raised
Before(text, rest) == IF IsRaise(rest) THEN rest ELSE PyStr(text \o rest.content)

\* str % args, left to right: %s takes str(arg), %d needs a number, %% is a percent
\* sign; too few or too many arguments raise TypeError
RECURSIVE Format(_, _)
Format(fmt, args) ==
  IF fmt = <<>> THEN (IF args = <<>> THEN PyStr(<<>>) ELSE Raise("TypeError"))
  ELSE IF Head(fmt) # "%" THEN Before(<<Head(fmt)>>, Format(Tail(fmt), args))
  ELSE IF Len(fmt) = 1 THEN Raise("ValueError")
  ELSE LET c == fmt[2]
           rest == SubSeq(fmt, 3, Len(fmt))
       IN CASE c = "%" -> Before(<<"%">>, Format(rest, args))
            [] c = "s" -> IF args = <<>> THEN Raise("TypeError")
                          ELSE Before(StrOf(Head(args)), Format(rest, Tail(args)))
            [] c = "d" -> IF args = <<>> \/ ~IsIndex(Head(args)) THEN Raise("TypeError")
                          ELSE Before(IntText(Head(args).n), Format(rest, Tail(args)))
            [] OTHER -> Raise("ValueError")

\* str.__mod__
StrMod(fmt, other) == Format(fmt, ModArgs(other))

UpperChar(c) == CASE c = "a" -> "A" [] c = "b" -> "B" [] c = "s" -> "S"
                  [] c = "d" -> "D" [] OTHER -> c

\* str.upper
StrUpper(s) == [i \in 1..Len(s) |-> UpperChar(s[i])]

RECURSIVE LStrip(_, _)
LStrip(s, chars) ==
  IF s # <<>> /\ Head(s) \in chars THEN LStrip(Tail(s), chars) ELSE s

\* str.strip(chars): None strips whitespace
StrStrip(s, chars) == Reverse(LStrip(Reverse(LStrip(s, chars)), chars))

\* str.replace(old, new): every occurrence, left to right; an empty old matches
\* before every character and at the end
RECURSIVE ReplaceAll(_, _, _)
ReplaceAll(s, old, new) ==
  LET i == FindFrom(s, old, 1)
  IN IF old = <<>> THEN
       (IF s = <<>> THEN new ELSE new \o <<Head(s)>> \o ReplaceAll(Tail(s), old, new))
     ELSE IF i = 0 THEN s
     ELSE SubSeq(s, 1, i - 1) \o new \o ReplaceAll(SubSeq(s, i + Len(old), Len(s)), old, new)

\* str.center(width, fillchar): CPython pads left with marg/2 + (marg & width & 1)
StrCenter(s, width, fill) ==
  LET marg == width - Len(s)
      left == (marg \div 2) + (IF marg % 2 = 1 /\ width % 2 = 1 THEN 1 ELSE 0)
  IN IF marg <= 0 THEN s
     ELSE StrMul(fill, left) \o s \o StrMul(fill, marg - left)

\* The inherited str methods the model calls through lstr.__getattribute__, each on
\* the receiver's text with positional arguments `args` and keyword-argument values
\* `kwargs`.  A text of the model holds no brace, so str.format has no replacement
\* field to fill and returns the text whatever it is passed.
StrMethod(name, s, args, kwargs) ==
  CASE name = "format" -> PyStr(s)
    [] name # "format" /\ kwargs # <<>> -> Raise("TypeError")
    [] name = "upper" /\ kwargs = <<>> ->
         IF args # <<>> THEN Raise("TypeError") ELSE PyStr(StrUpper(s))
    [] name = "encode" /\ kwargs = <<>> ->
         IF args # <<>> THEN Raise("TypeError") ELSE PyBytes(s)
    [] name = "strip" /\ kwargs = <<>> ->
         IF Len(args) > 1 THEN Raise("TypeError")
         ELSE IF args = <<>> \/ args[1].t = "NoneType" THEN PyStr(StrStrip(s, Whitespace))
         ELSE IF ~IsStr(args[1]) THEN Raise("TypeError")
         ELSE PyStr(StrStrip(s, {args[1].content[i] : i \in 1..Len(args[1].content)}))
    [] name = "replace" /\ kwargs = <<>> ->
         IF Len(args) # 2 \/ \E i \in 1..Len(args) : ~IsStr(args[i]) THEN Raise("TypeError")
         ELSE PyStr(ReplaceAll(s, args[1].content, args[2].content))
    [] name = "center" /\ kwargs = <<>> ->
         IF Len(args) \notin {1, 2} \/ ~IsIndex(args[1]) THEN Raise("TypeError")
         ELSE IF Len(args) = 1 THEN PyStr(StrCenter(s, args[1].n, <<" ">>))
         ELSE IF ~IsStr(args[2]) \/ Len(args[2].content) # 1 THEN Raise("TypeError")
         ELSE PyStr(StrCenter(s, args[1].n, args[2].content))
    [] name = "startswith" /\ kwargs = <<>> ->
         IF Len(args) # 1 \/ ~IsStr(args[1]) THEN Raise("TypeError")
         ELSE PyBool(OccursAt(s, args[1].content, 1))
    [] name = "find" /\ kwargs = <<>> ->
         IF Len(args) # 1 \/ ~IsStr(args[1]) THEN Raise("TypeError")
         ELSE PyInt(FindFrom(s, args[1].content, 1) - 1)
    [] OTHER -> Raise("AttributeError")

(***************************************************************************)
(* class lstr(str).                                                        *)
(***************************************************************************)
\* __new__ as it would be without the case of a single marker string: frozenset of a
\* str is the set of its characters
lstrNoSingleMarker(content, logits, _origin_trace) ==
  Val("lstr", content, logits.logits,
      IF IsStr(_origin_trace)
        THEN {<<_origin_trace.content[i]>> : i \in 1..Len(_origin_trace.content)}
      ELSE IF _origin_trace.t = "list"
        THEN {_origin_trace.items[i].content : i \in 1..Len(_origin_trace.items)}
      ELSE IF _origin_trace.t # "NoneType" THEN _origin_trace.elems
      ELSE {},
      0, <<>>, {})

\* lstr.__new__: the content, the logits as given, and the markers as a frozenset:
\* a single marker string becomes a singleton, None the empty set
lstr(content, logits, _origin_trace) ==
  Val("lstr", content, logits.logits,
      IF IsStr(_origin_trace) THEN {_origin_trace.content}
      ELSE IF _origin_trace.t = "list"
        THEN {_origin_trace.items[i].content : i \in 1..Len(_origin_trace.items)}
      ELSE IF _origin_trace.t # "NoneType" THEN _origin_trace.elems
      ELSE {},
      0, <<>>, {})

\* the markers of the lstr instances among the values of a sequence
OriginsOf(values) ==
  UNION {values[i].origin_trace : i \in {j \in 1..Len(values) : IsLstr(values[j])}}

\* __add__ as it would be were the right operand's markers forgotten
__add__LeftOnly(self, other) ==
  IF IsStr(other) THEN
    lstr(StrAdd(self.content, other.content), PyNone, PySet(self.origin_trace))
  ELSE NotImplemented

\* lstr.__add__
__add__(self, other) ==
  IF other.t = "str" THEN
    lstr(StrAdd(self.content, other.content), PyNone, PySet(self.origin_trace))
  ELSE IF IsLstr(other) THEN
    lstr(StrAdd(self.content, other.content), PyNone,
         PySet(self.origin_trace \cup other.origin_trace))
  ELSE NotImplemented

\* __mod__ as it would be were the elements of a tuple not looked at
__mod__NoTuple(self, other) ==
  LET result_content ==
        IF other.t = "tuple"
        THEN StrMod(self.content,
                    PyTuple([i \in 1..Len(other.items) |-> PyStr(StrOf(other.items[i]))]))
        ELSE StrMod(self.content, other)
      new__origin_trace ==
        IF IsLstr(other) THEN self.origin_trace \cup other.origin_trace
        ELSE self.origin_trace
  IN IF IsRaise(result_content) THEN result_content
     ELSE lstr(result_content.content, PyNone, PySet(new__origin_trace))

\* lstr.__mod__: the elements of a tuple are passed on as str(o)
__mod__(self, other) ==
  LET result_content ==
        IF other.t = "tuple"
        THEN StrMod(self.content,
                    PyTuple([i \in 1..Len(other.items) |-> PyStr(StrOf(other.items[i]))]))
        ELSE StrMod(self.content, other)
      new__origin_trace ==
        IF other.t = "tuple" THEN self.origin_trace \cup OriginsOf(other.items)
        ELSE IF IsLstr(other) THEN self.origin_trace \cup other.origin_trace
        ELSE self.origin_trace
  IN IF IsRaise(result_content) THEN result_content
     ELSE lstr(result_content.content, PyNone, PySet(new__origin_trace))

\* __mul__ as it would be were an operand that is no count taken for the count 1
__mul__AnyOperand(self, other) ==
  lstr(StrMul(self.content, IF IsIndex(other) THEN other.n ELSE 1), PyNone,
       PySet(self.origin_trace))

\* lstr.__mul__
__mul__(self, other) ==
  IF IsIndex(other) THEN lstr(StrMul(self.content, other.n), PyNone, PySet(self.origin_trace))
  ELSE NotImplemented

\* __rmul__ as it would be were the result built without the receiver's markers
__rmul__NoOrigin(self, other) ==
  IF IsIndex(other) THEN lstr(StrMul(self.content, other.n), PyNone, PyNone)
  ELSE NotImplemented

\* lstr.__rmul__
__rmul__(self, other) == __mul__(self, other)

\* __getitem__ as it would be were the receiver's logits handed on
__getitem__KeepsLogits(self, key) ==
  LET result == StrGetItem(self.content, key)
  IN IF IsRaise(result) THEN result
     ELSE [lstr(result.content, PyNone, PySet(self.origin_trace)) EXCEPT !.logits = self.logits]

\* __getitem__ as it would be were the result built without the receiver's markers
__getitem__NoOrigin(self, key) ==
  LET result == StrGetItem(self.content, key)
  IN IF IsRaise(result) THEN result ELSE lstr(result.content, PyNone, PyNone)

\* lstr.__getitem__
__getitem__(self, key) ==
  LET result == StrGetItem(self.content, key)
      logit_subset == PyNone
  IN IF IsRaise(result) THEN result
     ELSE lstr(result.content, logit_subset, PySet(self.origin_trace))

\* the wrapper as it would be were the keyword arguments not looked at
wrappedNoKwargs(self, name, args, kwargs) ==
  LET result == StrMethod(name, self.content, args, kwargs)
  IN IF IsStr(result)
     THEN lstr(result.content, PyNone, PySet(self.origin_trace \cup OriginsOf(args)))
     ELSE result

\* the closure lstr.__getattribute__ returns for an inherited callable, called
wrapped(self, name, args, kwargs) ==
  LET result == StrMethod(name, self.content, args, kwargs)
      _origin_traces == (self.origin_trace \cup OriginsOf(args)) \cup OriginsOf(kwargs)
  IN IF IsStr(result) THEN lstr(result.content, PyNone, PySet(_origin_traces))
     ELSE result

\* one traversal of an iterable: <<what it yields, the iterable afterwards>>; a list or
\* a tuple can be traversed again, a single-pass iterator is then exhausted
Traverse(iterable) ==
  IF iterable.t = "iterator" THEN <<iterable.items, PyIter(<<>>)>>
  ELSE <<iterable.items, iterable>>

\* lstr.join: the iterable is traversed once for the content, and again for the markers
join(self, iterable) ==
  LET first == Traverse(iterable)
      parts == [i \in 1..Len(first[1]) |-> StrOf(first[1][i])]
      new_content == StrJoin(self.content, parts)
      second == Traverse(first[2])
      new__origin_trace == self.origin_trace \cup OriginsOf(second[1])
  IN IF iterable.t \notin {"list", "tuple", "iterator"} THEN Raise("TypeError")
     ELSE lstr(new_content, PyNone, PySet(new__origin_trace))

\* _split_helper as it would be were the separator not handed to str.split, which
\* then splits at runs of whitespace
_split_helperNoSep(self, method, sep, maxsplit) ==
  LET parts == IF method = "rsplit" THEN StrRSplit(self.content, PyNone, maxsplit)
               ELSE StrSplit(self.content, PyNone, maxsplit)
  IN IF IsRaise(parts) THEN parts
     ELSE PyList([i \in 1..Len(parts.items) |->
                    lstr(parts.items[i].content, PyNone, PySet(self.origin_trace))])

\* lstr._split_helper, method being str.split or str.rsplit
_split_helper(self, method, sep, maxsplit) ==
  LET _origin_traces ==
        IF IsLstr(sep) THEN self.origin_trace \cup sep.origin_trace ELSE self.origin_trace
      parts == IF method = "rsplit" THEN StrRSplit(self.content, sep, maxsplit)
               ELSE StrSplit(self.content, sep, maxsplit)
  IN IF IsRaise(parts) THEN parts
     ELSE PyList([i \in 1..Len(parts.items) |->
                    lstr(parts.items[i].content, PyNone, PySet(_origin_traces))])

\* lstr.split
split(self, sep, maxsplit) == _split_helper(self, "split", sep, maxsplit)

\* lstr.rsplit
rsplit(self, sep, maxsplit) == _split_helper(self, "rsplit", sep, maxsplit)

\* lstr.splitlines
splitlines(self, keepends) ==
  LET parts == StrSplitlines(self.content, keepends)
  IN PyList([i \in 1..Len(parts.items) |->
               lstr(parts.items[i].content, PyNone, PySet(self.origin_trace))])

\* _partition_helper as it would be were the separator's markers forgotten
_partition_helperNoSep(self, method, sep) ==
  LET parts == IF method = "rpartition" THEN StrRPartition(self.content, sep)
               ELSE StrPartition(self.content, sep)
  IN IF IsRaise(parts) THEN parts
     ELSE PyTuple([i \in 1..3 |->
                     lstr(parts.items[i].content, PyNone, PySet(self.origin_trace))])

\* lstr._partition_helper, method being str.partition or str.rpartition
_partition_helper(self, method, sep) ==
  LET parts == IF method = "rpartition" THEN StrRPartition(self.content, sep)
               ELSE StrPartition(self.content, sep)
      new__origin_trace ==
        IF IsLstr(sep) THEN self.origin_trace \cup sep.origin_trace ELSE self.origin_trace
  IN IF IsRaise(parts) THEN parts
     ELSE PyTuple([i \in 1..3 |->
                     lstr(parts.items[i].content, PyNone, PySet(new__origin_trace))])

\* lstr.partition
partition(self, sep) == _partition_helper(self, "partition", sep)

\* lstr.rpartition
rpartition(self, sep) == _partition_helper(self, "rpartition", sep)

\* the names lstr.__dict__ holds: what the class defines itself
ClassDict ==
  {"__new__", "logits", "_origin_trace", "__repr__", "__add__", "__mod__", "__mul__",
   "__rmul__", "__getitem__", "__getattribute__", "join", "split", "rsplit",
   "splitlines", "partition", "rpartition", "_partition_helper", "_split_helper"}

\* a.name(*args, **kwargs): lstr.__getattribute__ wraps a callable the class does not
\* define itself and hands out its own methods as they are
__getattribute__(self, name, args, kwargs) ==
  IF name \notin ClassDict THEN wrapped(self, name, args, kwargs)
  ELSE CASE name = "join" /\ Len(args) = 1 -> join(self, args[1])
         [] name = "splitlines" /\ Len(args) = 1 -> splitlines(self, args[1])
         [] name = "partition" /\ Len(args) = 1 -> partition(self, args[1])
         [] name = "rpartition" /\ Len(args) = 1 -> rpartition(self, args[1])
         [] name = "split" /\ Len(args) = 2 -> split(self, args[1], args[2])
         [] name = "rsplit" /\ Len(args) = 2 -> rsplit(self, args[1], args[2])
         [] OTHER -> Raise("TypeError")

\* s + a for a plain str s and an lstr a: lstr defines no __radd__, so Python runs
\* str.__add__ of the left operand, whose result is a plain str
str__add__(s, other) ==
  IF IsStr(other) THEN PyStr(StrAdd(s.content, other.content)) ELSE Raise("TypeError")

(***************************************************************************)
(* The inputs the program is run on.                                       *)
(***************************************************************************)
M1 == <<"m", "1">>

M2 == <<"m", "2">>

\* the contents instances are constructed with: a separator, a text to split, and
\* templates of one and of two conversions to text and of one conversion to a number
Texts ==
  {<<" ">>, <<"a", " ", "b", "\n">>, <<"%", "s">>, <<"%", "s", "%", "s">>, <<"%", "d">>}

\* a logits array, known by its tag
Scores == Val("ndarray", <<>>, "scores", {}, 0, <<>>, {})

LogitsArgs == {PyNone, Scores}

\* the _origin_trace argument: absent, one marker string, a collection of markers
OriginArgs == {PyNone, PyStr(M1), PySet({M2})}

\* the instances a caller holds: every one the constructor makes of these arguments
Instances ==
  {lstr(content, logits, _origin_trace) :
     content \in Texts, logits \in LogitsArgs, _origin_trace \in OriginArgs}

\* the plain strings passed as operands
Strs == {PyStr(<<>>), PyStr(<<" ">>), PyStr(<<"b">>), PyStr(<<"%">>)}

\* the values passed where several arguments or elements are
Operands ==
  {lstr(<<" ">>, PyNone, PyStr(M1)), lstr(<<"b">>, Scores, PySet({M2})),
   PyStr(<<" ">>), PyStr(<<"b">>)}

\* the sequences of at most n elements of S
RECURSIVE SeqsUpTo(_, _)
SeqsUpTo(S, n) ==
  IF n = 0 THEN {<<>>}
  ELSE SeqsUpTo(S, n - 1)
         \cup {Append(q, x) : q \in {r \in SeqsUpTo(S, n - 1) : Len(r) = n - 1}, x \in S}

Counts == {PyInt(n) : n \in -1..MaxCount}

\* an index, or a slice with bounds that are absent or numbers and a step that is
\* absent or -1
Keys ==
  {PyInt(i) : i \in -MaxCount..MaxCount}
    \cup {PySlice(a, b, c) : a \in {PyNone} \cup Counts, b \in {PyNone} \cup Counts,
                             c \in {PyNone, PyInt(-1)}}

\* calls of inherited str methods: <<name, args, kwargs>>
Calls ==
  {<<"upper", <<>>, <<>>>>, <<"encode", <<>>, <<>>>>, <<"strip", <<>>, <<>>>>}
    \cup {<<"strip", <<x>>, <<>>>> : x \in Operands}
    \cup {<<"replace", <<x, y>>, <<>>>> : x \in Operands, y \in Operands}
    \cup {<<"center", <<w, x>>, <<>>>> :
            w \in {PyInt(MaxCount), PyInt(MaxCount + MaxCount + 1)}, x \in Operands}
    \cup {<<"format", a, k>> : a \in SeqsUpTo(Operands, 1), k \in SeqsUpTo(Operands, 1)}
    \cup {<<"startswith", <<x>>, <<>>>> : x \in Operands}
    \cup {<<"find", <<x>>, <<>>>> : x \in Operands}

(***************************************************************************)
(* The state: where the caller is, the call that last returned, and the    *)
(* lstr objects that exist when it returns.                                *)
(***************************************************************************)
Call(op, self, args, kwargs, out) ==
  [op |-> op, self |-> self, args |-> args, kwargs |-> kwargs, out |-> out]

NoCall == Call("none", PyNone, <<>>, <<>>, PyNone)

\* the values a call is made on, one after the other: the receiver, the arguments,
\* the keyword arguments, the elements of a tuple, list or iterator in place of it
RECURSIVE Flat(_)
Flat(values) ==
  IF values = <<>> THEN <<>>
  ELSE (IF Head(values).t \in {"tuple", "list", "iterator"} THEN Head(values).items
        ELSE <<Head(values)>>) \o Flat(Tail(values))

\* the lstr objects a call is made on: they are in the heap before the call
Objects(self, args, kwargs) == SelectSeq(Flat(<<self>> \o args \o kwargs), IsLstr)

\* __new__ as it would be were the fields written to the first object of the heap
AllocInPlace(h, instance) ==
  IF h = <<>> THEN Append(h, instance) ELSE [h EXCEPT ![1] = instance]

\* the only writes of the class: lstr.__new__ sets _logits and __origin_trace of
\* `instance`, the object super().__new__ has just made, which is new in the heap
Alloc(h, instance) == Append(h, instance)

\* the heap after the instances a call constructed were made, one after the other
RECURSIVE AllocAll(_, _)
AllocAll(h, instances) ==
  IF instances = <<>> THEN h ELSE AllocAll(Alloc(h, Head(instances)), Tail(instances))

Init ==
  /\ pc = "idle"
  /\ last = NoCall
  /\ heap = <<>>

\* the call of `op` on these operands returns `out` to the caller; the heap holds the
\* operands and, after them, the instances the call constructed
Returns(op, self, args, kwargs, out) ==
  /\ pc' = "returned"
  /\ last' = Call(op, self, args, kwargs, out)
  /\ heap' = AllocAll(Objects(self, args, kwargs), SelectSeq(Flat(<<out>>), IsLstr))

\* lstr(content, logits, _origin_trace)
New ==
  /\ pc = "idle"
  /\ \E content \in Texts \cup {<<>>}, logits \in LogitsArgs,
        _origin_trace \in OriginArgs \cup {PyList(<<PyStr(M2), PyStr(M2)>>)} :
       Returns("__new__", PyNone, <<PyStr(content), logits, _origin_trace>>, <<>>,
               lstr(content, logits, _origin_trace))

\* a + other
Add ==
  /\ pc = "idle"
  /\ \E self \in Instances, other \in Instances \cup Strs \cup {PyInt(1), PyNone} :
       Returns("__add__", self, <<other>>, <<>>, __add__(self, other))

\* s + a, s a plain str
RAdd ==
  /\ pc = "idle"
  /\ \E s \in Strs, other \in Instances :
       Returns("str.__add__", s, <<other>>, <<>>, str__add__(s, other))

\* a % other
Mod ==
  /\ pc = "idle"
  /\ \E self \in Instances,
        other \in Instances \cup Strs \cup {PyInt(1)}
                    \cup {PyTuple(q) : q \in SeqsUpTo(Operands \cup {PyInt(1)}, MaxItems)} :
       Returns("__mod__", self, <<other>>, <<>>, __mod__(self, other))

\* a * other
Mul ==
  /\ pc = "idle"
  /\ \E self \in Instances,
        other \in Counts \cup Instances \cup {PyBool(TRUE), PyFloat(2), PyStr(<<"b">>)} :
       Returns("__mul__", self, <<other>>, <<>>, __mul__(self, other))

\* other * a: int.__mul__ does not take a str, so Python runs a.__rmul__(other)
RMul ==
  /\ pc = "idle"
  /\ \E self \in Instances, other \in Counts \cup Operands \cup {PyBool(TRUE), PyFloat(2)} :
       Returns("__rmul__", self, <<other>>, <<>>, __rmul__(self, other))

\* a[key]
GetItem ==
  /\ pc = "idle"
  /\ \E self \in Instances, key \in Keys :
       Returns("__getitem__", self, <<key>>, <<>>, __getitem__(self, key))

\* a.name(*args, **kwargs) for an inherited str method
GetAttr ==
  /\ pc = "idle"
  /\ \E self \in Instances, c \in Calls :
       Returns(c[1], self, c[2], c[3], __getattribute__(self, c[1], c[2], c[3]))

\* a.join(iterable)
Join ==
  /\ pc = "idle"
  /\ \E self \in Instances, q \in SeqsUpTo(Operands \cup {PyInt(1)}, MaxItems) :
       \E iterable \in {PyList(q), PyTuple(q), PyIter(q)} :
         Returns("join", self, <<iterable>>, <<>>,
                 __getattribute__(self, "join", <<iterable>>, <<>>))

\* a.split(sep, maxsplit)
Split ==
  /\ pc = "idle"
  /\ \E self \in Instances, sep \in {PyNone} \cup Instances \cup Strs, maxsplit \in Counts :
       Returns("split", self, <<sep, maxsplit>>, <<>>,
               __getattribute__(self, "split", <<sep, maxsplit>>, <<>>))

\* a.rsplit(sep, maxsplit)
RSplit ==
  /\ pc = "idle"
  /\ \E self \in Instances, sep \in {PyNone} \cup Instances \cup Strs, maxsplit \in Counts :
       Returns("rsplit", self, <<sep, maxsplit>>, <<>>,
               __getattribute__(self, "rsplit", <<sep, maxsplit>>, <<>>))

\* a.splitlines(keepends)
Splitlines ==
  /\ pc = "idle"
  /\ \E self \in Instances, keepends \in {PyBool(FALSE), PyBool(TRUE)} :
       Returns("splitlines", self, <<keepends>>, <<>>,
               __getattribute__(self, "splitlines", <<keepends>>, <<>>))

\* a.partition(sep)
Partition ==
  /\ pc = "idle"
  /\ \E self \in Instances, sep \in Instances \cup Strs :
       Returns("partition", self, <<sep>>, <<>>,
               __getattribute__(self, "partition", <<sep>>, <<>>))

\* a.rpartition(sep)
RPartition ==
  /\ pc = "idle"
  /\ \E self \in Instances, sep \in Instances \cup Strs :
       Returns("rpartition", self, <<sep>>, <<>>,
               __getattribute__(self, "rpartition", <<sep>>, <<>>))

\* the caller is done with the value returned and goes on to its next call
Resume ==
  /\ pc = "returned"
  /\ pc' = "idle"
  /\ last' = NoCall
  /\ heap' = <<>>

Next ==
  \/ New
  \/ Add
  \/ RAdd
  \/ Mod
  \/ Mul
  \/ RMul
  \/ GetItem
  \/ GetAttr
  \/ Join
  \/ Split
  \/ RSplit
  \/ Splitlines
  \/ Partition
  \/ RPartition
  \/ Resume

Spec == Init /\ [][Next]_vars

(***************************************************************************)
(* What a call that returned shows.                                        *)
(***************************************************************************)
Returned == pc = "returned"

\* the values a call returned: the value itself, or the elements of a list or tuple
OutValues ==
  IF last.out.t \in {"list", "tuple"} THEN {last.out.items[i] : i \in 1..Len(last.out.items)}
  ELSE {last.out}

\* the lstr instances among them
OutInstances == {v \in OutValues : IsLstr(v)}

\* the operands of the call: the receiver, the arguments, the keyword arguments and
\* the elements of a tuple, list or iterator passed as an argument
OperandValues ==
  LET direct == <<last.self>> \o last.args \o last.kwargs
      inner(v) == IF v.t \in {"tuple", "list", "iterator"}
                  THEN {v.items[i] : i \in 1..Len(v.items)} ELSE {}
  IN {direct[i] : i \in 1..Len(direct)} \cup UNION {inner(direct[i]) : i \in 1..Len(direct)}

\* the markers of the lstr instances among the operands
OperandOrigins == UNION {v.origin_trace : v \in {w \in OperandValues : IsLstr(w)}}

\* the operations of lstr on existing values: everything but construction
Derives == Returned /\ last.op # "__new__"

\* the calls that go through the wrapper of lstr.__getattribute__
Generic == Returned /\ last.op \notin ClassDict \cup {"str.__add__"}

(***************************************************************************)
(* The claims.                                                             *)
(***************************************************************************)

\* C1: every instance an operation returns carries exactly the union of the markers
\* of the lstr instances among its operands (receiver, arguments, separator, tuple
\* elements, joined elements): none dropped, none invented.
C1_OriginsAreUnionOfOperands ==
  Derives => \A r \in OutInstances : r.origin_trace = OperandOrigins

\* C2: every instance an operation returns has no logits, whatever its operands
\* carried; logits are found only on the instance constructed with them.
C2_DerivedLogitsAbsent ==
  Returned =>
    \A r \in OutInstances :
      r.logits # NoLogits => last.op = "__new__" /\ last.args[2].logits = r.logits

\* a full-range slice of an instance that has logits: the content is kept verbatim
C2_Witness ==
  /\ Returned
  /\ last.op = "__getitem__"
  /\ last.self.logits # NoLogits
  /\ IsLstr(last.out)
  /\ last.out.content = last.self.content
  /\ last.out.content # <<>>

\* C3: an operation with an lstr operand that returns text returns lstr instances,
\* never a plain str, with the lstr on either side of a binary operator.
C3_TextResultsAreInstances ==
  (Returned /\ \E v \in OperandValues : IsLstr(v)) =>
    \A r \in OutValues : IsStr(r) => IsLstr(r)

\* C4: a + b has the contents concatenated, no logits, and the markers of a and of b;
\* a + s for a plain str s has the markers of a.
C4_Concatenation ==
  (Returned /\ last.op = "__add__" /\ IsStr(last.args[1])) =>
    /\ IsLstr(last.out)
    /\ last.out.content = last.self.content \o last.args[1].content
    /\ last.out.logits = NoLogits
    /\ last.out.origin_trace =
         last.self.origin_trace
           \cup (IF IsLstr(last.args[1]) THEN last.args[1].origin_trace ELSE {})

\* two instances with different markers, both with logits, are concatenated
C4_Witness ==
  /\ Returned
  /\ last.op = "__add__"
  /\ IsLstr(last.args[1])
  /\ last.self.logits # NoLogits
  /\ last.args[1].logits # NoLogits
  /\ last.self.origin_trace # {}
  /\ last.args[1].origin_trace \ last.self.origin_trace # {}
  /\ IsLstr(last.out)

\* C5: r.join(elements) has the stringified elements joined by r as content, no
\* logits, and the markers of r and of every lstr element, for a list, a tuple and a
\* single-pass iterator alike.
C5_JoinOrigins ==
  (Returned /\ last.op = "join") =>
    LET elements == last.args[1].items
    IN /\ IsLstr(last.out)
       /\ last.out.content =
            StrJoin(last.self.content, [i \in 1..Len(elements) |-> StrOf(elements[i])])
       /\ last.out.logits = NoLogits
       /\ last.out.origin_trace = last.self.origin_trace \cup OriginsOf(elements)

\* C6: the fragments of split and rsplit and the three parts of partition and
\* rpartition all carry the receiver's markers, with the separator's when it is an
\* lstr, and no logits; the fragments of splitlines carry the receiver's markers.
C6_FragmentsShareOrigins ==
  (Returned /\ last.op \in {"split", "rsplit", "partition", "rpartition", "splitlines"}
     /\ ~IsRaise(last.out)) =>
    LET sep == last.args[1]
        expected == IF last.op # "splitlines" /\ IsLstr(sep)
                    THEN last.self.origin_trace \cup sep.origin_trace
                    ELSE last.self.origin_trace
    IN /\ last.out.t = (IF last.op \in {"partition", "rpartition"} THEN "tuple" ELSE "list")
       /\ last.op \in {"partition", "rpartition"} => Len(last.out.items) = 3
       /\ \A i \in 1..Len(last.out.items) :
            /\ IsLstr(last.out.items[i])
            /\ last.out.items[i].origin_trace = expected
            /\ last.out.items[i].logits = NoLogits

\* a partition by an lstr separator that brings a marker of its own and does not
\* occur in the receiver, which has logits: two of the parts are empty
C6_Witness ==
  /\ Returned
  /\ last.op = "partition"
  /\ IsLstr(last.args[1])
  /\ last.args[1].origin_trace \ last.self.origin_trace # {}
  /\ last.self.origin_trace # {}
  /\ last.self.logits # NoLogits
  /\ last.out.t = "tuple"
  /\ last.out.items[2].content = <<>>
  /\ last.out.items[3].content = <<>>

\* C7: a[k] for a valid index or slice k has the content of str indexing (a
\* full-range slice keeps it verbatim), no logits, and the markers of a.
C7_Indexing ==
  (Returned /\ last.op = "__getitem__" /\ ~IsRaise(last.out)) =>
    /\ IsLstr(last.out)
    /\ last.out.content = StrGetItem(last.self.content, last.args[1]).content
    /\ last.args[1] = PySlice(PyNone, PyNone, PyNone) => last.out.content = last.self.content
    /\ (IsIndex(last.args[1]) /\ last.args[1].n >= 0) =>
         last.out.content = <<last.self.content[last.args[1].n + 1]>>
    /\ last.out.logits = NoLogits
    /\ last.out.origin_trace = last.self.origin_trace

\* a proper slice of an instance that has logits and a marker
C7_Witness ==
  /\ Returned
  /\ last.op = "__getitem__"
  /\ last.args[1].t = "slice"
  /\ last.self.logits # NoLogits
  /\ last.self.origin_trace # {}
  /\ IsLstr(last.out)
  /\ last.out.content # <<>>
  /\ last.out.content # last.self.content

\* C8: a * n for a count n >= 0 has the markers of a (also when n = 0) and no
\* logits, and n * a has the content and the markers of a * n.
C8_Repetition ==
  (Returned /\ last.op \in {"__mul__", "__rmul__"} /\ IsIndex(last.args[1])
     /\ last.args[1].n >= 0) =>
    /\ IsLstr(last.out)
    /\ last.out.content = StrMul(last.self.content, last.args[1].n)
    /\ last.out.logits = NoLogits
    /\ last.out.origin_trace = last.self.origin_trace
    /\ last.out = __mul__(last.self, last.args[1])

\* 0 * a for an instance that has logits and a marker: the content is empty
C8_Witness ==
  /\ Returned
  /\ last.op = "__rmul__"
  /\ last.args[1] = PyInt(0)
  /\ last.self.content # <<>>
  /\ last.self.logits # NoLogits
  /\ last.self.origin_trace # {}
  /\ IsLstr(last.out)
  /\ last.out.content = <<>>

\* C9: an inherited str method called on a returns, when str's result is text, an
\* instance with that content, no logits, and the markers of a and of every lstr
\* among the positional and keyword arguments; any other result is returned as it is.
C9_GenericWrap ==
  Generic =>
    LET result == StrMethod(last.op, last.self.content, last.args, last.kwargs)
    IN IF IsStr(result)
       THEN /\ IsLstr(last.out)
            /\ last.out.content = result.content
            /\ last.out.logits = NoLogits
            /\ last.out.origin_trace =
                 (last.self.origin_trace \cup OriginsOf(last.args)) \cup OriginsOf(last.kwargs)
       ELSE last.out = result

\* a replace whose old text does not occur: the content is the receiver's, and the
\* marker of the new text, an lstr, is in the result all the same
C9_Witness ==
  /\ Returned
  /\ last.op = "replace"
  /\ IsLstr(last.args[2])
  /\ last.args[2].origin_trace \ last.self.origin_trace # {}
  /\ last.self.origin_trace # {}
  /\ last.self.logits # NoLogits
  /\ IsLstr(last.out)
  /\ last.out.content = last.self.content
  /\ last.args[2].origin_trace \subseteq last.out.origin_trace

\* C10: t % operand has no logits and the markers of t, with those of the operand
\* when it is an lstr, or of every lstr element when it is a tuple.
C10_Interpolation ==
  (Returned /\ last.op = "__mod__" /\ ~IsRaise(last.out)) =>
    /\ IsLstr(last.out)
    /\ last.out.logits = NoLogits
    /\ last.out.origin_trace =
         last.self.origin_trace
           \cup (IF last.args[1].t = "tuple" THEN OriginsOf(last.args[1].items)
                 ELSE IF IsLstr(last.args[1]) THEN last.args[1].origin_trace
                 ELSE {})

\* a template with logits and a marker, and a tuple of a plain str and an lstr that
\* brings another marker
C10_Witness ==
  /\ Returned
  /\ last.op = "__mod__"
  /\ last.args[1].t = "tuple"
  /\ Len(last.args[1].items) = 2
  /\ last.args[1].items[1].t = "str"
  /\ IsLstr(last.args[1].items[2])
  /\ last.args[1].items[2].origin_trace \ last.self.origin_trace # {}
  /\ last.self.origin_trace # {}
  /\ last.self.logits # NoLogits
  /\ IsLstr(last.out)

\* C11: lstr(content, logits, origin) has exactly the given content, the given logits
\* or none, and as markers the empty set when no origin is given, {m} when a single
\* marker string m is given, which makes it the instance constructed with the set
\* {m}, and the elements of the given collection otherwise.
C11_Construction ==
  (Returned /\ last.op = "__new__") =>
    LET content == last.args[1].content
        logits == last.args[2]
        origin == last.args[3]
    IN /\ IsLstr(last.out)
       /\ last.out.content = content
       /\ last.out.logits = (IF logits.t = "NoneType" THEN NoLogits ELSE logits.logits)
       /\ origin.t = "NoneType" => last.out.origin_trace = {}
       /\ origin.t = "str" =>
            /\ last.out.origin_trace = {origin.content}
            /\ last.out = lstr(content, logits, PySet({origin.content}))
       /\ origin.t = "frozenset" => last.out.origin_trace = origin.elems
       /\ origin.t = "list" =>
            last.out.origin_trace = {origin.items[i].content : i \in 1..Len(origin.items)}

\* an instance constructed with logits and a single marker string of two characters
C11_Witness ==
  /\ Returned
  /\ last.op = "__new__"
  /\ last.args[2] = Scores
  /\ last.args[3].t = "str"
  /\ Len(last.args[3].content) = 2
  /\ last.out.logits = Scores.logits
  /\ last.out.origin_trace = {last.args[3].content}

\* C12: for a non-empty plain separator sep and any bound, the fragments of
\* a.split(sep, bound) joined by sep, be it with str.join or with the join of an
\* instance made of sep, give the content of a again, and every fragment carries
\* exactly the markers of a and no logits.
C12_SplitJoinRoundTrip ==
  (Returned /\ last.op = "split" /\ last.args[1].t = "str" /\ last.args[1].content # <<>>) =>
    LET sep == last.args[1].content
        fragments == last.out.items
    IN /\ last.out.t = "list"
       /\ StrJoin(sep, [i \in 1..Len(fragments) |-> StrOf(fragments[i])]) = last.self.content
       /\ join(lstr(sep, PyNone, PyNone), last.out).content = last.self.content
       /\ \A i \in 1..Len(fragments) :
            /\ IsLstr(fragments[i])
            /\ fragments[i].origin_trace = last.self.origin_trace
            /\ fragments[i].logits = NoLogits

\* a split bounded to one cut of a text that holds the separator twice, made on an
\* instance that has logits and a marker: the last fragment still holds the separator
C12_Witness ==
  /\ Returned
  /\ last.op = "split"
  /\ last.args[1].t = "str"
  /\ last.args[1].content # <<>>
  /\ last.args[2] = PyInt(1)
  /\ last.self.logits # NoLogits
  /\ last.self.origin_trace # {}
  /\ last.out.t = "list"
  /\ Len(last.out.items) = 2
  /\ FindFrom(last.out.items[2].content, last.args[1].content, 1) # 0

Plain(v) ==
  IF IsLstr(v) THEN PyStr(v.content)
  ELSE IF v.t \in {"tuple", "list", "iterator"}
    THEN [v EXCEPT !.items = [i \in 1..Len(v.items) |->
                                IF IsLstr(v.items[i]) THEN PyStr(v.items[i].content)
                                ELSE v.items[i]]]
  ELSE v

\* what the caller of an operation gets: Python raises TypeError for an operator
\* whose method returned NotImplemented when the other operand has no method for it
Outcome(v) == IF v = NotImplemented THEN Raise("TypeError") ELSE Plain(v)

\* the operation `op` of a plain str s on plain operands
StrOp(op, s, args) ==
  CASE op = "__add__" ->
         IF IsStr(args[1]) THEN PyStr(StrAdd(s, args[1].content)) ELSE Raise("TypeError")
    [] op \in {"__mul__", "__rmul__"} ->
         IF IsIndex(args[1]) THEN PyStr(StrMul(s, args[1].n)) ELSE Raise("TypeError")
    [] op = "__getitem__" -> StrGetItem(s, args[1])
    [] op = "__mod__" -> StrMod(s, args[1])
    [] op = "join" ->
         IF \E i \in 1..Len(args[1].items) : ~IsStr(args[1].items[i]) THEN Raise("TypeError")
         ELSE PyStr(StrJoin(s, [i \in 1..Len(args[1].items) |-> args[1].items[i].content]))
    [] op = "split" -> StrSplit(s, args[1], args[2])
    [] op = "rsplit" -> StrRSplit(s, args[1], args[2])
    [] op = "splitlines" -> StrSplitlines(s, args[1])
    [] op = "partition" -> StrPartition(s, args[1])
    [] op = "rpartition" -> StrRPartition(s, args[1])

\* the operations the content of which is that of a str operation
TextOps ==
  {"__add__", "__mul__", "__rmul__", "__getitem__", "__mod__", "join", "split", "rsplit",
   "splitlines", "partition", "rpartition"}

\* C14: the content an operation on instances gives, or the error it ends in, is what
\* the same operation of str gives on the plain contents of the operands, for +, *,
\* indexing, % of one value and of a tuple, join, split, rsplit, splitlines, partition
\* and rpartition; the three parts of a partition concatenated are the receiver's
\* content, and a separator that does not occur gives (content, "", "") for partition
\* and ("", "", content) for rpartition.
C14_ContentIsStrContent ==
  (Returned /\ last.op \in TextOps) =>
    LET s == last.self.content
        parts == last.out.items
        args == [i \in 1..Len(last.args) |-> Plain(last.args[i])]
    IN /\ Outcome(last.out) = StrOp(last.op, s, args)
       /\ (last.op \in {"partition", "rpartition"} /\ ~IsRaise(last.out)) =>
            /\ parts[1].content \o parts[2].content \o parts[3].content = s
            /\ FindFrom(s, last.args[1].content, 1) = 0 =>
                 [i \in 1..3 |-> parts[i].content] =
                   (IF last.op = "partition" THEN <<s, <<>>, <<>>>> ELSE <<<<>>, <<>>, s>>)

====
